---- MODULE Spec2Model ----
(***************************************************************************)
(* NovelTranslator (src/src/App.js): the two-request Gemini pipeline       *)
(* AI_TRANSLATOR.translate, the doTranslate action that drives it, and the *)
(* guarded Supabase writes of the App component.                           *)
(*                                                                         *)
(* JavaScript values are modelled as follows.  null and undefined are the  *)
(* string Null.  A parsed JSON value is a record of one shape,             *)
(*   [type, has, chapterTitle, novelTitle, characters, jargon, insideJokes]*)
(* where type is "object", "null" or "other" (number, string, array ...),  *)
(* has is the set of properties the object carries, and a property that is *)
(* not in has reads as undefined.  A text returned by the model is a       *)
(* record [kind, value]: kind "empty" is the empty string, "invalid" is a  *)
(* text JSON.parse rejects, "json" is a text that parses to value.         *)
(* An async function is a process: one action per stretch of code between  *)
(* two awaits on the network, with the render's variables it closed over   *)
(* kept in the process (field cl).                                         *)
(***************************************************************************)
EXTENDS Integers, Sequences, FiniteSets, TLC

\* ---------------------------------------------------------------- bounds
\* doTranslate invocations in one behaviour
MaxRuns == 2
\* rows of the chapters table (addChapter stops there)
MaxChapters == 2
\* rows of the novels table (createNovel stops there)
MaxNovels == 1
\* rows of the translations table
MaxTranslations == 2
\* database calls of UI-invoked operations awaiting their response
MaxCalls == 1
\* user events (clicks, edits, session changes) in one behaviour
MaxEvents == 6

\* ---------------------------------------------------------------- values
Null == "<null>"

RunIds == 1..MaxRuns

\* `!x` of a string-or-null value
Falsy(x) == x = Null \/ x = ""

\* inputs the user can type / the services can return
ApiKeyInputs == {"", "k1"}
SourceTexts == {"", "zh1"}
EnglishTexts == {"en1"}
NovelTitles == {"N1", "N2"}
ChapterTitleInputs == {"", "T1"}
DetectedTitles == {Null, "", "T1"}

AllProps == {"chapterTitle", "novelTitle", "characters", "jargon", "insideJokes"}

JsValue(type, has, chapterTitle, novelTitle, characters, jargon, insideJokes) ==
    [type |-> type, has |-> has, chapterTitle |-> chapterTitle,
     novelTitle |-> novelTitle, characters |-> characters, jargon |-> jargon,
     insideJokes |-> insideJokes]

\* the value of JSON.parse("{}")
EmptyObject == JsValue("object", {}, Null, Null, <<>>, <<>>, <<>>)
\* the value of JSON.parse("null")
JsNull == JsValue("null", {}, Null, Null, <<>>, <<>>, <<>>)
\* the value of JSON.parse("42"), of a JSON string, of a JSON array
JsOther == JsValue("other", {}, Null, Null, <<>>, <<>>, <<>>)
\* no value yet
NoContext == JsValue("none", {}, Null, Null, <<>>, <<>>, <<>>)

\* the object the analysis prompt asks for
FullObject(chapterTitle) ==
    JsValue("object", AllProps, chapterTitle, "Novel", <<"c1">>, <<"j1">>, <<"k1">>)
\* an object that lacks the three arrays
PartialObject == JsValue("object", {"novelTitle"}, Null, "Novel", <<>>, <<>>, <<>>)

ParsedValues ==
    {EmptyObject, JsNull, JsOther, PartialObject} \cup {FullObject(t) : t \in DetectedTitles}

EmptyText == [kind |-> "empty", value |-> NoContext]
InvalidText == [kind |-> "invalid", value |-> NoContext]
JsonText(v) == [kind |-> "json", value |-> v]

AnalysisTexts == {EmptyText, InvalidText} \cup {JsonText(v) : v \in ParsedValues}

\* the body of a generateContent response, as response.json() sees it:
\* json = FALSE is a body that is not JSON; hasText says whether
\* candidates[0].content.parts[0].text exists
NotJsonBody(t) == [json |-> FALSE, hasText |-> FALSE, text |-> t]
NoTextBody(t) == [json |-> TRUE, hasText |-> FALSE, text |-> t]
TextBody(t) == [json |-> TRUE, hasText |-> TRUE, text |-> t]

AnalysisBodies ==
    {NotJsonBody(EmptyText), NoTextBody(EmptyText)} \cup {TextBody(t) : t \in AnalysisTexts}
TranslationBodies ==
    {NotJsonBody(""), NoTextBody("")} \cup {TextBody(t) : t \in EnglishTexts \cup {""}}

\* what fetch can produce: a response with ok status, a response with a
\* non-success status, or a rejection
FetchOutcomes == {"ok", "http_error", "rejected"}

\* ---------------------------------------------------------------- state
VARIABLES
    apiKey,            \* localStorage GEMINI_API_KEY; Null when nothing is stored
    config,            \* useSupabase config: [url, anonKey]
    user,              \* App state user: Null or the signed-in user's id
    novels,            \* App state novels: sequence of novel rows
    activeNovel,       \* App state activeNovel: a novel row or NoNovel
    chapters,          \* App state chapters: sequence of chapter rows
    activeChapter,     \* App state activeChapter: a chapter row or NoChapter
    sourceZH,          \* App state sourceZH
    translationEN,     \* App state translationEN
    notes,             \* App state notes
    tone,              \* App state tone (the select is left at its first option)
    status,            \* App state status
    extractedContext,  \* App state extractedContext (NoContext is null)
    db,                \* the hosted tables: [novels, chapters, translations]
    loads,             \* chapter ids whose translation load awaits its response
    runs,              \* doTranslate invocations, by RunIds
    calls,             \* UI-invoked operations awaiting a database response
    events,            \* user events so far (bounds the behaviours explored)
    gl                 \* one use of the glossary engine: its inputs and results

vars ==
    <<apiKey, config, user, novels, activeNovel, chapters, activeChapter, sourceZH,
      translationEN, notes, tone, status, extractedContext, db, loads, runs, calls, events,
      gl>>

appVars ==
    <<novels, activeNovel, chapters, activeChapter, sourceZH, translationEN, notes,
      tone, status, extractedContext>>

NoNovel == [id |-> 0, title |-> Null, is_public |-> FALSE, created_by |-> Null]
NoChapter == [id |-> 0, novel_id |-> 0, number |-> 0, title |-> Null, content |-> Null]

\* a user event, counted
Event == events < MaxEvents /\ events' = events + 1

\* useSupabase: the client is null unless both settings are non-empty
Supabase(cfg) == cfg.url # "" /\ cfg.anonKey # ""
isConfigured == Supabase(config)
\* variant: a signed-in user is enough to write
CanWriteUserOnly == user # Null

canWrite == isConfigured /\ user # Null

\* SmokeTests, 'config-guard': pass: isConfigured ? true : !canWrite
ConfigGuardPass == IF isConfigured THEN TRUE ELSE ~canWrite

\* the variables of the current render, as a function defined in it sees them
Closure ==
    [supabase |-> Supabase(config), user |-> user, novels |-> novels,
     activeNovel |-> activeNovel, chapters |-> chapters,
     activeChapter |-> activeChapter, sourceZH |-> sourceZH, tone |-> tone]

NoClosure ==
    [supabase |-> FALSE, user |-> Null, novels |-> <<>>, activeNovel |-> NoNovel,
     chapters |-> <<>>, activeChapter |-> NoChapter, sourceZH |-> "", tone |-> Null]

\* the part of the render a function keeps alive: the variables it reads
Captured(read) ==
    [name \in DOMAIN Closure |-> IF name \in read THEN Closure[name] ELSE NoClosure[name]]

\* ---------------------------------------------------------------- AI_TRANSLATOR.translate
KeyMissingMessage == "Set Gemini API key in Settings for AI translation."
AnalysisFailedMessage == "Analysis failed: 500"
TranslationFailedMessage == "Translation failed: 500"
FetchRejectedMessage == "Failed to fetch"
BodyNotJsonMessage == "Unexpected token < in JSON"
TypeErrorMessage == "Cannot read properties of undefined"
\* the outer catch rethrows
Rethrown(message) == "AI Translation failed: " \o message

\* variant: only a key that was never stored counts as missing
KeyMissingOnlyNull(key) == key = Null

\* `if (!apiKey) throw`
KeyMissing(key) == Falsy(key)

AnalysisRequest(text) ==
    [step |-> "analyze", text |-> text, tone |-> Null, context |-> NoContext]
TranslationRequest(text, tn, context) ==
    [step |-> "translate", text |-> text,
     tone |-> IF Falsy(tn) THEN "match original" ELSE tn, context |-> context]

\* variant: the status of the response is never looked at
AnyStatusOk(outcome) == TRUE

\* `if (!response.ok) throw`, of a fetch that resolved
ResponseOk(outcome) == outcome = "ok"

\* variant: both requests are sent up front
BothRequests(text) ==
    <<AnalysisRequest(text), TranslationRequest(text, Null, NoContext)>>

\* the requests translate has issued when it first awaits
FirstRequests(text) == <<AnalysisRequest(text)>>

\* the text of a response body as it came over the wire
RawBody(body) ==
    IF ~body.json THEN "<html>Bad Gateway</html>"
    ELSE IF ~body.hasText THEN "{candidates: []}"
    ELSE "{candidates: [{content: {parts: [{text: '" \o body.text \o "'}]}}]}"

\* candidates?.[0]?.content?.parts?.[0]?.text || "{}"
AnalysisText(body) ==
    IF body.hasText /\ body.text.kind # "empty" THEN body.text ELSE JsonText(EmptyObject)

\* variant: a fallback context that holds the title only
DefaultContextWithoutArrays(chapterTitle) ==
    JsValue("object", {"novelTitle"}, Null,
            IF Falsy(chapterTitle) THEN "Unknown Novel" ELSE chapterTitle,
            <<>>, <<>>, <<>>)

\* variant: a fallback context that is always titled with the sentinel
DefaultContextSentinelOnly(chapterTitle) ==
    JsValue("object", {"novelTitle", "characters", "jargon", "insideJokes"}, Null,
            "Unknown Novel", <<>>, <<>>, <<>>)

\* the context of the inner catch
DefaultContext(chapterTitle) ==
    JsValue("object", {"novelTitle", "characters", "jargon", "insideJokes"}, Null,
            IF Falsy(chapterTitle) THEN "Unknown Novel" ELSE chapterTitle,
            <<>>, <<>>, <<>>)

\* try { context = JSON.parse(analysisText) } catch { context = default }
ParseContext(text, chapterTitle) ==
    IF text.kind = "json" THEN text.value ELSE DefaultContext(chapterTitle)

\* evaluating the translation prompt's template throws a TypeError when
\* context is null or one of the three arrays it maps/joins is undefined
PromptThrows(context) ==
    \/ context.type = "null"
    \/ ~({"characters", "jargon", "insideJokes"} \subseteq context.has)

\* variant: the raw response body stands in for a missing candidate text
TranslatedTextOrRaw(body, text) ==
    IF body.hasText /\ body.text # "" THEN body.text ELSE RawBody(body)

\* candidates?.[0]?.content?.parts?.[0]?.text || text
TranslatedText(body, text) ==
    IF body.hasText /\ body.text # "" THEN body.text ELSE text

\* variant: the result does not carry the context
TranslateResultWithoutContext(translatedText, context) ==
    [english |-> translatedText, notes |-> <<>>, context |-> NoContext]

NoResult == [english |-> Null, notes |-> <<>>, context |-> NoContext]
\* the value translate returns
TranslateResult(translatedText, context) ==
    [english |-> translatedText, notes |-> <<>>, context |-> context]

\* ---------------------------------------------------------------- glossary substitution engine
\* texts are sequences of characters
MaxTextLen == 3
MaxGlossary == 2

TextChars == {"a", "b", "<", "0", ">"}
DigitChars == <<"0", "1", "2", "3", "4", "5", "6", "7", "8", "9">>
Texts(n) == UNION {[1..k -> TextChars] : k \in 0..n}
GlossaryTexts == Texts(MaxTextLen)
\* terms as the user typed them; an empty term is rejected before mapping
SourceTerms == {<<>>, <<"a">>, <<"b">>}
TargetTerms == {<<>>, <<"A">>, <<"<", "0", ">">>}
Entries == [sourceTerm : SourceTerms, targetTerm : TargetTerms]
\* a GlossaryMap in the order its terms were added: the source terms are keys
Glossaries ==
    {g \in UNION {[1..k -> Entries] : k \in 0..MaxGlossary} :
        \A i, j \in DOMAIN g : g[i].sourceTerm = g[j].sourceTerm => i = j}

\* `term` occurs in `text` as a literal substring
Contains(text, term) ==
    \E i \in 1..(Len(text) - Len(term) + 1) : SubSeq(text, i, i + Len(term) - 1) = term

\* every literal, non-overlapping occurrence of `term`, from the left,
\* replaced by `by`
RECURSIVE ReplaceAll(_, _, _)
ReplaceAll(text, term, by) ==
    IF Len(text) < Len(term) \/ term = <<>>
    THEN text
    ELSE IF SubSeq(text, 1, Len(term)) = term
    THEN by \o ReplaceAll(SubSeq(text, Len(term) + 1, Len(text)), term, by)
    ELSE <<Head(text)>> \o ReplaceAll(Tail(text), term, by)

\* the k-th token of a request: a guillemet-wrapped index ("<" and ">" stand
\* for the two guillemets)
Token(k) == <<"<", DigitChars[k + 1], ">">>

\* mapTerms, entry by entry in glossary order: entries with an empty term are
\* skipped; every other entry gets a fresh token and a marker, whether or not
\* its source term occurs
RECURSIVE MapFrom(_, _, _)
MapFrom(working, markers, rest) ==
    IF rest = <<>>
    THEN [mappedText |-> working, markers |-> markers]
    ELSE LET entry == Head(rest)
             token == Token(Len(markers))
         IN IF entry.sourceTerm = <<>> \/ entry.targetTerm = <<>>
            THEN MapFrom(working, markers, Tail(rest))
            ELSE MapFrom(ReplaceAll(working, entry.sourceTerm, token),
                         Append(markers, [token |-> token,
                                          sourceTerm |-> entry.sourceTerm,
                                          targetTerm |-> entry.targetTerm]),
                         Tail(rest))

\* mapTerms(text, glossary) -> (mappedText, markers)
MapTerms(text, glossary) == MapFrom(text, <<>>, glossary)

\* restoreTerms(text, markers) -> restoredText: for each marker, in order,
\* every occurrence of its token replaced by its target term
RECURSIVE RestoreTerms(_, _)
RestoreTerms(text, markers) ==
    IF markers = <<>>
    THEN text
    ELSE RestoreTerms(ReplaceAll(text, Head(markers).token, Head(markers).targetTerm),
                      Tail(markers))

\* what a provider may answer to a mapped text: the text with its tokens
\* kept verbatim, bare or inside other words, or with the tokens mangled
Mangled(text) == SelectSeq(text, LAMBDA ch : ch # "<")
ProviderOutputs(mapped) == {mapped, <<"T">> \o mapped, Mangled(mapped)}

\* the engine before use
GlossaryIdle ==
    [pc |-> "idle", text |-> <<>>, glossary |-> <<>>, request |-> <<>>, mappedText |-> <<>>,
     markers |-> <<>>, output |-> <<>>, restored |-> <<>>, again |-> <<>>]

\* ---------------------------------------------------------------- tables and effects
UpdateTitle(rows, id, newTitle) ==
    [i \in DOMAIN rows |->
        IF rows[i].id = id THEN [rows[i] EXCEPT !.title = newTitle] ELSE rows[i]]

Matching(rows, chapterId) == SelectSeq(rows, LAMBDA t : t.chapter_id = chapterId)

\* .eq("chapter_id", id).maybeSingle(): the row when exactly one matches; null
\* when none matches, when several match (an error) or when the request fails
MaybeSingle(rows, chapterId, ok) ==
    IF ok /\ Len(Matching(rows, chapterId)) = 1
    THEN Matching(rows, chapterId)[1]
    ELSE [id |-> 0, chapter_id |-> 0, english |-> Null, notes |-> <<>>]

\* the update / insert of saveTranslation, applied by the database
ApplySave(rows, existingId, chapterId, english, notesArr) ==
    IF existingId # 0
    THEN [i \in DOMAIN rows |->
            IF rows[i].id = existingId
            THEN [rows[i] EXCEPT !.english = english, !.notes = notesArr]
            ELSE rows[i]]
    ELSE Append(rows, [id |-> Len(rows) + 1, chapter_id |-> chapterId,
                       english |-> english, notes |-> notesArr])

\* useEffect [supabase, activeChapter]: the select the effect sends, named by
\* the chapter id it asks for
TranslationEffect(sup, chapter) ==
    IF sup /\ chapter # NoChapter THEN {chapter.id} ELSE {}
\* useEffect [supabase, activeChapter]: setSourceZH(activeChapter?.content || "")
SourceAfterEffect(sup, chapter, source) ==
    IF sup /\ chapter # NoChapter
    THEN (IF Falsy(chapter.content) THEN "" ELSE chapter.content)
    ELSE source

\* ---------------------------------------------------------------- guards of the writes
\* createNovel, updateNovelTitle, updateChapterTitle: `if (!supabase) return; if (!user) return;`
WriteGuard(cl) == cl.supabase /\ cl.user # Null
\* addChapter adds `if (!activeNovel) return;`
AddChapterGuard(cl) == cl.supabase /\ cl.activeNovel # NoNovel /\ cl.user # Null
\* saveSource, saveTranslation add `if (!activeChapter) return;`
SaveGuard(cl) == cl.supabase /\ cl.activeChapter # NoChapter /\ cl.user # Null

\* variant: the detected title is not compared with the chapter's title
WantsTitleAlways(context, chapter) ==
    /\ ~Falsy(context.chapterTitle)
    /\ chapter # NoChapter

\* doTranslate: out.context.chapterTitle && out.context.chapterTitle !==
\* activeChapter?.title && activeChapter
WantsTitleUpdate(context, chapter) ==
    /\ ~Falsy(context.chapterTitle)
    /\ context.chapterTitle # chapter.title
    /\ chapter # NoChapter

\* ---------------------------------------------------------------- doTranslate
\* what doTranslate, and the updateChapterTitle and saveTranslation of its
\* render, read of the render (sourceZH is kept as the run's text)
ReadByDoTranslate == {"supabase", "user", "chapters", "activeChapter", "tone"}

\* A run of doTranslate.  The translate call: key, text, chapterTitle are its
\* inputs; sent the requests it has issued, inflight how many are unsettled;
\* aStatus / tStatus how each fetch settled; aText / tText what each body
\* held; returned the candidate text of the translation body and raw that
\* body as received; context, out and thrown its context, its result and the
\* errors it threw.  The rest of doTranslate: newTitle and existing are the
\* arguments of the pending database request; committed says that the run
\* set translationEN, notes and extractedContext; written counts the inserts
\* and updates it issued; callOk says whether writes were allowed
\* (canWrite) when the operation that issued the pending request was called
IdleRun ==
    [pc |-> "idle", cl |-> NoClosure, key |-> Null, text |-> Null, chapterTitle |-> Null,
     sent |-> <<>>, inflight |-> 0, aStatus |-> "none", aText |-> "none",
     tStatus |-> "none", tText |-> "none", returned |-> Null, raw |-> Null,
     context |-> NoContext, out |-> NoResult, thrown |-> <<>>, newTitle |-> Null,
     existing |-> 0, committed |-> FALSE, written |-> 0, callOk |-> TRUE]

\* a run that has returned: the render it closed over is no longer held
Finished(run) ==
    [run EXCEPT !.cl = NoClosure, !.newTitle = Null, !.existing = 0, !.callOk = TRUE]

\* variant: the catch shows a fixed text
GenericStatus(message) == "Translation failed"

\* variant: the catch leaves the status as it is
StatusKept(message) == "Analyzing and translating..."

\* doTranslate's catch: setStatus(e.message || "Translation failed")
CaughtStatus(message) == IF message = "" THEN "Translation failed" ELSE message

\* the run's translate call throws `message`; doTranslate's catch shows it
Throw(r, run, message) ==
    /\ runs' = [runs EXCEPT ![r] =
                    Finished([run EXCEPT !.pc = "failed", !.inflight = 0,
                                         !.thrown = Append(run.thrown, message)])]
    /\ status' = CaughtStatus(message)

\* the AI Translate button (disabled while sourceZH is empty): doTranslate up
\* to the first fetch of translate
DoTranslate(r) ==
    /\ runs[r].pc = "idle"
    /\ \A earlier \in 1..(r - 1) : runs[earlier].pc # "idle"
    /\ sourceZH # ""
    /\ LET run == [IdleRun EXCEPT !.cl = Captured(ReadByDoTranslate), !.key = apiKey,
                                  !.text = sourceZH,
                                  !.chapterTitle = activeChapter.title]
       IN IF KeyMissing(apiKey)
          THEN Throw(r, run, KeyMissingMessage)
          ELSE /\ runs' = [runs EXCEPT ![r] =
                              [run EXCEPT !.pc = "analysis_fetch",
                                          !.sent = FirstRequests(run.text),
                                          !.inflight = Len(FirstRequests(run.text))]]
               /\ status' = "Analyzing and translating..."
    /\ Event
    /\ UNCHANGED <<apiKey, config, user, novels, activeNovel, chapters, activeChapter,
                   sourceZH, translationEN, notes, tone, extractedContext, db, loads,
                   calls>>
    /\ UNCHANGED gl

\* the first fetch settles: `if (!analysisResponse.ok) throw`
AnalysisResponse(r) ==
    /\ runs[r].pc = "analysis_fetch"
    /\ \E outcome \in FetchOutcomes :
          LET run == [runs[r] EXCEPT !.aStatus = outcome, !.inflight = runs[r].inflight - 1]
          IN IF outcome = "rejected"
             THEN Throw(r, run, Rethrown(FetchRejectedMessage))
             ELSE IF ~ResponseOk(outcome)
             THEN Throw(r, run, Rethrown(AnalysisFailedMessage))
             ELSE /\ runs' = [runs EXCEPT ![r] = [run EXCEPT !.pc = "analysis_json"]]
                  /\ UNCHANGED status
    /\ UNCHANGED <<events, apiKey, config, user, novels, activeNovel, chapters,
                   activeChapter, sourceZH, translationEN, notes, tone, extractedContext,
                   db, loads, calls>>
    /\ UNCHANGED gl

\* analysisResponse.json() settles: parse the context, build the translation
\* prompt, send the second fetch
AnalysisResult(r) ==
    /\ runs[r].pc = "analysis_json"
    /\ \E body \in AnalysisBodies :
          LET run == runs[r]
              text == AnalysisText(body)
              context == ParseContext(text, run.chapterTitle)
          IN IF ~body.json
             THEN Throw(r, [run EXCEPT !.aText = "not_json"], Rethrown(BodyNotJsonMessage))
             ELSE IF PromptThrows(context)
             THEN Throw(r, [run EXCEPT !.aText = text.kind], Rethrown(TypeErrorMessage))
             ELSE /\ runs' = [runs EXCEPT ![r] =
                                 [run EXCEPT !.pc = "translation_fetch",
                                             !.aText = text.kind,
                                             !.context = context,
                                             !.sent = Append(run.sent,
                                                 TranslationRequest(run.text, run.cl.tone,
                                                                    context)),
                                             !.inflight = run.inflight + 1]]
                  /\ UNCHANGED status
    /\ UNCHANGED <<events, apiKey, config, user, novels, activeNovel, chapters,
                   activeChapter, sourceZH, translationEN, notes, tone, extractedContext,
                   db, loads, calls>>
    /\ UNCHANGED gl

\* the second fetch settles: `if (!translationResponse.ok) throw`
TranslationResponse(r) ==
    /\ runs[r].pc = "translation_fetch"
    /\ \E outcome \in FetchOutcomes :
          LET run == [runs[r] EXCEPT !.tStatus = outcome, !.inflight = runs[r].inflight - 1]
          IN IF outcome = "rejected"
             THEN Throw(r, run, Rethrown(FetchRejectedMessage))
             ELSE IF ~ResponseOk(outcome)
             THEN Throw(r, run, Rethrown(TranslationFailedMessage))
             ELSE /\ runs' = [runs EXCEPT ![r] = [run EXCEPT !.pc = "translation_json"]]
                  /\ UNCHANGED status
    /\ UNCHANGED <<events, apiKey, config, user, novels, activeNovel, chapters,
                   activeChapter, sourceZH, translationEN, notes, tone, extractedContext,
                   db, loads, calls>>
    /\ UNCHANGED gl

\* translationResponse.json() settles: translate returns (or throws), and
\* doTranslate goes on to the first database request of updateChapterTitle or
\* saveTranslation, or to "Done" when their guards return at once
TranslationResult(r) ==
    /\ runs[r].pc = "translation_json"
    /\ \E body \in TranslationBodies :
          LET run == runs[r]
              cl == run.cl
              out == TranslateResult(TranslatedText(body, run.text), run.context)
              shown == [run EXCEPT !.tText = IF ~body.hasText THEN "no_text"
                                             ELSE IF body.text = "" THEN "empty"
                                             ELSE "text",
                                   !.returned = IF body.hasText THEN body.text ELSE Null,
                                   !.raw = RawBody(body),
                                   !.out = out, !.committed = TRUE, !.callOk = canWrite]
          IN IF ~body.json
             THEN /\ Throw(r, [run EXCEPT !.tText = "not_json", !.raw = RawBody(body)],
                           Rethrown(BodyNotJsonMessage))
                  /\ UNCHANGED <<translationEN, notes, extractedContext>>
             ELSE /\ translationEN' = out.english
                  /\ notes' = out.notes
                  /\ extractedContext' = out.context
                  /\ IF WantsTitleUpdate(out.context, cl.activeChapter) /\ WriteGuard(cl)
                     THEN /\ runs' = [runs EXCEPT ![r] =
                                         [shown EXCEPT !.pc = "title_update",
                                                       !.newTitle = out.context.chapterTitle,
                                                       !.written = run.written + 1]]
                          /\ UNCHANGED status
                     ELSE IF SaveGuard(cl)
                     THEN /\ runs' = [runs EXCEPT ![r] = [shown EXCEPT !.pc = "save_select"]]
                          /\ UNCHANGED status
                     ELSE /\ runs' = [runs EXCEPT ![r] = Finished([shown EXCEPT !.pc = "done"])]
                          /\ status' = "Done"
    /\ UNCHANGED <<events, apiKey, config, user, novels, activeNovel, chapters,
                   activeChapter, sourceZH, tone, db, loads, calls>>
    /\ UNCHANGED gl

\* updateChapterTitle's update settles inside doTranslate; saveTranslation's
\* guards pass (they passed for the update) and it sends its select
TitleUpdateResult(r) ==
    /\ runs[r].pc = "title_update"
    /\ \E ok \in BOOLEAN :
          LET run == runs[r]
              cl == run.cl
              chapter == [cl.activeChapter EXCEPT !.title = run.newTitle]
          IN /\ runs' = [runs EXCEPT ![r] = [run EXCEPT !.pc = "save_select",
                                                        !.callOk = canWrite]]
             /\ IF ok
                THEN /\ db' = [db EXCEPT !.chapters =
                                  UpdateTitle(db.chapters, cl.activeChapter.id, run.newTitle)]
                     /\ chapters' = UpdateTitle(cl.chapters, cl.activeChapter.id, run.newTitle)
                     /\ activeChapter' = chapter
                     /\ status' = "Updated chapter title"
                     /\ sourceZH' = SourceAfterEffect(isConfigured, chapter, sourceZH)
                     /\ loads' = loads \cup TranslationEffect(isConfigured, chapter)
                ELSE UNCHANGED <<db, chapters, activeChapter, status, sourceZH, loads>>
    /\ UNCHANGED <<events, apiKey, config, user, novels, activeNovel, translationEN, notes,
                   tone, extractedContext, calls>>
    /\ UNCHANGED gl

\* saveTranslation's select settles inside doTranslate: update the row found,
\* insert when none was found
SaveSelectResult(r) ==
    /\ runs[r].pc = "save_select"
    /\ \E ok \in BOOLEAN :
          LET run == runs[r]
              found == MaybeSingle(db.translations, run.cl.activeChapter.id, ok)
          IN runs' = [runs EXCEPT ![r] = [run EXCEPT !.pc = "save_write",
                                                     !.existing = found.id,
                                                     !.written = run.written + 1]]
    /\ UNCHANGED <<events, apiKey, config, user, db, loads, calls>>
    /\ UNCHANGED appVars
    /\ UNCHANGED gl

\* saveTranslation's update / insert settles inside doTranslate: "Saved
\* translation" on success, an alert on error; doTranslate then sets "Done"
SaveWriteResult(r) ==
    /\ runs[r].pc = "save_write"
    /\ \E ok \in BOOLEAN :
          LET run == runs[r]
          IN /\ ok /\ run.existing = 0 => Len(db.translations) < MaxTranslations
             /\ db' = IF ok
                      THEN [db EXCEPT !.translations =
                               ApplySave(db.translations, run.existing,
                                         run.cl.activeChapter.id, run.out.english,
                                         run.out.notes)]
                      ELSE db
             /\ runs' = [runs EXCEPT ![r] = Finished([run EXCEPT !.pc = "done"])]
             /\ status' = "Done"
    /\ UNCHANGED <<events, apiKey, config, user, novels, activeNovel, chapters,
                   activeChapter, sourceZH, translationEN, notes, tone, extractedContext,
                   loads, calls>>
    /\ UNCHANGED gl

\* ---------------------------------------------------------------- operations invoked from the UI
\* [...chapters, data].sort((a, b) => a.number - b.number): a stable sort
RECURSIVE SortByNumber(_)
SortByNumber(rows) ==
    IF Len(rows) <= 1
    THEN rows
    ELSE LET last == rows[Len(rows)]
             front == SortByNumber(SubSeq(rows, 1, Len(rows) - 1))
             smaller == SelectSeq(front, LAMBDA c : c.number <= last.number)
             larger == SelectSeq(front, LAMBDA c : c.number > last.number)
         IN smaller \o <<last>> \o larger

\* the variables of its render each operation reads
ReadByCreateNovel == {"supabase", "user", "novels"}
ReadByAddChapter == {"supabase", "user", "activeNovel", "chapters", "sourceZH"}
ReadBySaveSource == {"supabase", "user", "activeChapter", "sourceZH"}
ReadBySaveTranslation == {"supabase", "user", "activeChapter"}
ReadByUpdateNovelTitle == {"supabase", "user", "novels", "activeNovel"}
ReadByUpdateChapterTitle == {"supabase", "user", "chapters", "activeChapter"}

\* a call in progress: the operation, the render it closes over, its
\* arguments (a row id or number, a title, a text, a notes array), where it is
Call(op, read, id, title, english, notesArr, pc) ==
    [op |-> op, cl |-> Captured(read), id |-> id, title |-> title, english |-> english,
     notes |-> notesArr, pc |-> pc, existing |-> 0, callOk |-> canWrite]

\* the Create button (disabled when the title is empty or writes are not
\* allowed): createNovel up to its insert
CreateNovel ==
    /\ canWrite
    /\ Cardinality(calls) < MaxCalls
    /\ Len(db.novels) < MaxNovels
    /\ \E title \in NovelTitles :
          /\ WriteGuard(Closure)
          /\ calls' = calls \cup {Call("createNovel", ReadByCreateNovel, 0, title, "", <<>>, "write")}
    /\ Event
    /\ UNCHANGED <<apiKey, config, user, db, loads, runs>>
    /\ UNCHANGED appVars
    /\ UNCHANGED gl

\* createNovel's insert settles
CreateNovelResult ==
    \E c \in calls, ok \in BOOLEAN :
       /\ c.op = "createNovel"
       /\ calls' = calls \ {c}
       /\ IF ok
          THEN LET data == [id |-> Len(db.novels) + 1, title |-> c.title, is_public |-> TRUE,
                            created_by |-> c.cl.user]
               IN /\ Len(db.novels) < MaxNovels
                  /\ db' = [db EXCEPT !.novels = Append(db.novels, data)]
                  /\ novels' = <<data>> \o c.cl.novels
                  /\ activeNovel' = data
          ELSE UNCHANGED <<db, novels, activeNovel>>
       /\ UNCHANGED <<events, apiKey, config, user, loads, chapters, activeChapter, sourceZH,
                      translationEN, notes, tone, status, extractedContext, runs>>
       /\ UNCHANGED gl

\* the Add button (disabled without an active novel or when writes are not
\* allowed): addChapter up to its insert
AddChapter ==
    /\ canWrite /\ activeNovel # NoNovel
    /\ Cardinality(calls) < MaxCalls
    /\ Len(db.chapters) < MaxChapters
    /\ \E number \in {Len(chapters) + 1}, title \in ChapterTitleInputs :
          /\ AddChapterGuard(Closure)
          /\ calls' = calls \cup {Call("addChapter", ReadByAddChapter, number, title, "", <<>>, "write")}
    /\ Event
    /\ UNCHANGED <<apiKey, config, user, db, loads, runs>>
    /\ UNCHANGED appVars
    /\ UNCHANGED gl

\* addChapter's insert settles
AddChapterResult ==
    \E c \in calls, ok \in BOOLEAN :
       /\ c.op = "addChapter"
       /\ calls' = calls \ {c}
       /\ IF ok
          THEN LET data == [id |-> Len(db.chapters) + 1, novel_id |-> c.cl.activeNovel.id,
                            number |-> c.id, title |-> c.title, content |-> c.cl.sourceZH]
               IN /\ Len(db.chapters) < MaxChapters
                  /\ db' = [db EXCEPT !.chapters = Append(db.chapters, data)]
                  /\ chapters' = SortByNumber(Append(c.cl.chapters, data))
                  /\ activeChapter' = data
                  /\ sourceZH' = SourceAfterEffect(isConfigured, data, sourceZH)
                  /\ loads' = loads \cup TranslationEffect(isConfigured, data)
          ELSE UNCHANGED <<db, chapters, activeChapter, sourceZH, loads>>
       /\ UNCHANGED <<events, apiKey, config, user, novels, activeNovel, translationEN, notes,
                      tone, status, extractedContext, runs>>
       /\ UNCHANGED gl

\* the Save Source button (disabled without an active chapter or when writes
\* are not allowed): saveSource up to its update
SaveSource ==
    /\ canWrite /\ activeChapter # NoChapter
    /\ Cardinality(calls) < MaxCalls
    /\ SaveGuard(Closure)
    /\ calls' = calls \cup {Call("saveSource", ReadBySaveSource, 0, "", "", <<>>, "write")}
    /\ Event
    /\ UNCHANGED <<apiKey, config, user, db, loads, runs>>
    /\ UNCHANGED appVars
    /\ UNCHANGED gl

\* saveSource's update settles
SaveSourceResult ==
    \E c \in calls, ok \in BOOLEAN :
       /\ c.op = "saveSource"
       /\ calls' = calls \ {c}
       /\ IF ok
          THEN /\ db' = [db EXCEPT !.chapters =
                            [i \in DOMAIN db.chapters |->
                                IF db.chapters[i].id = c.cl.activeChapter.id
                                THEN [db.chapters[i] EXCEPT !.content = c.cl.sourceZH]
                                ELSE db.chapters[i]]]
               /\ status' = "Saved source"
          ELSE UNCHANGED <<db, status>>
       /\ UNCHANGED <<events, apiKey, config, user, novels, activeNovel, chapters, activeChapter,
                      sourceZH, translationEN, notes, tone, extractedContext, loads, runs>>
       /\ UNCHANGED gl

\* the Save Translation button (disabled without an active chapter or when
\* writes are not allowed): saveTranslation up to its select
SaveTranslation ==
    /\ canWrite /\ activeChapter # NoChapter
    /\ Cardinality(calls) < MaxCalls
    /\ SaveGuard(Closure)
    /\ calls' = calls \cup {Call("saveTranslation", ReadBySaveTranslation, 0, "", translationEN, notes, "select")}
    /\ Event
    /\ UNCHANGED <<apiKey, config, user, db, loads, runs>>
    /\ UNCHANGED appVars
    /\ UNCHANGED gl

\* saveTranslation's select settles: update the row found, insert otherwise
SaveTranslationSelectResult ==
    \E c \in calls, ok \in BOOLEAN :
       /\ c.op = "saveTranslation" /\ c.pc = "select"
       /\ calls' = (calls \ {c}) \cup
             {[c EXCEPT !.pc = "write",
                        !.existing = MaybeSingle(db.translations, c.cl.activeChapter.id, ok).id]}
       /\ UNCHANGED <<events, apiKey, config, user, db, loads, runs>>
       /\ UNCHANGED appVars
       /\ UNCHANGED gl

\* saveTranslation's update / insert settles
SaveTranslationResult ==
    \E c \in calls, ok \in BOOLEAN :
       /\ c.op = "saveTranslation" /\ c.pc = "write"
       /\ calls' = calls \ {c}
       /\ IF ok
          THEN /\ c.existing = 0 => Len(db.translations) < MaxTranslations
               /\ db' = [db EXCEPT !.translations =
                            ApplySave(db.translations, c.existing, c.cl.activeChapter.id,
                                      c.english, c.notes)]
               /\ status' = "Saved translation"
          ELSE UNCHANGED <<db, status>>
       /\ UNCHANGED <<events, apiKey, config, user, novels, activeNovel, chapters, activeChapter,
                      sourceZH, translationEN, notes, tone, extractedContext, loads, runs>>
       /\ UNCHANGED gl

\* saveEdit of the novel list (the Edit button shows only when writes are
\* allowed; the trimmed title is non-empty): updateNovelTitle up to its update
UpdateNovelTitle ==
    /\ canWrite
    /\ Cardinality(calls) < MaxCalls
    /\ \E i \in DOMAIN novels, newTitle \in NovelTitles :
          /\ WriteGuard(Closure)
          /\ calls' = calls \cup {Call("updateNovelTitle", ReadByUpdateNovelTitle, novels[i].id, newTitle, "", <<>>, "write")}
    /\ Event
    /\ UNCHANGED <<apiKey, config, user, db, loads, runs>>
    /\ UNCHANGED appVars
    /\ UNCHANGED gl

\* updateNovelTitle's update settles
UpdateNovelTitleResult ==
    \E c \in calls, ok \in BOOLEAN :
       /\ c.op = "updateNovelTitle"
       /\ calls' = calls \ {c}
       /\ IF ok
          THEN LET novel == [c.cl.activeNovel EXCEPT !.title = c.title]
                   active == IF c.cl.activeNovel.id = c.id THEN novel ELSE activeNovel
               IN /\ db' = [db EXCEPT !.novels = UpdateTitle(db.novels, c.id, c.title)]
                  /\ novels' = UpdateTitle(c.cl.novels, c.id, c.title)
                  /\ activeNovel' = active
                  /\ status' = "Updated novel title"
          ELSE UNCHANGED <<db, novels, activeNovel, status>>
       /\ UNCHANGED <<events, apiKey, config, user, loads, chapters, activeChapter, sourceZH,
                      translationEN, notes, tone, extractedContext, runs>>
       /\ UNCHANGED gl

\* saveEdit of the chapter sidebar: updateChapterTitle up to its update
UpdateChapterTitle ==
    /\ canWrite
    /\ Cardinality(calls) < MaxCalls
    /\ \E i \in DOMAIN chapters, newTitle \in ChapterTitleInputs \ {""} :
          /\ WriteGuard(Closure)
          /\ calls' = calls \cup
                {Call("updateChapterTitle", ReadByUpdateChapterTitle, chapters[i].id, newTitle, "", <<>>, "write")}
    /\ Event
    /\ UNCHANGED <<apiKey, config, user, db, loads, runs>>
    /\ UNCHANGED appVars
    /\ UNCHANGED gl

\* updateChapterTitle's update settles
UpdateChapterTitleResult ==
    \E c \in calls, ok \in BOOLEAN :
       /\ c.op = "updateChapterTitle"
       /\ calls' = calls \ {c}
       /\ IF ok
          THEN LET chapter == [c.cl.activeChapter EXCEPT !.title = c.title]
                   hit == c.cl.activeChapter.id = c.id
               IN /\ db' = [db EXCEPT !.chapters = UpdateTitle(db.chapters, c.id, c.title)]
                  /\ chapters' = UpdateTitle(c.cl.chapters, c.id, c.title)
                  /\ activeChapter' = IF hit THEN chapter ELSE activeChapter
                  /\ status' = "Updated chapter title"
                  /\ sourceZH' = IF hit THEN SourceAfterEffect(isConfigured, chapter, sourceZH)
                                 ELSE sourceZH
                  /\ loads' = loads \cup
                        (IF hit THEN TranslationEffect(isConfigured, chapter) ELSE {})
          ELSE UNCHANGED <<db, chapters, activeChapter, status, sourceZH, loads>>
       /\ UNCHANGED <<events, apiKey, config, user, novels, activeNovel, translationEN, notes,
                      tone, extractedContext, runs>>
       /\ UNCHANGED gl

\* ---------------------------------------------------------------- settings, session, editing
ConfigInputs ==
    {[url |-> "", anonKey |-> ""], [url |-> "https://p.supabase.co", anonKey |-> "anon"]}

\* Save Supabase: a new client (or null); every effect that depends on the
\* client runs again
SaveSupabase ==
    \E cfg \in ConfigInputs :
       /\ cfg # config
       /\ config' = cfg
       /\ sourceZH' = SourceAfterEffect(Supabase(cfg), activeChapter, sourceZH)
       /\ loads' = loads \cup TranslationEffect(Supabase(cfg), activeChapter)
       /\ Event
       /\ UNCHANGED <<apiKey, user, novels, activeNovel, chapters, activeChapter,
                      translationEN, notes, tone, status, extractedContext, db, runs, calls>>
       /\ UNCHANGED gl

\* Save API Key: localStorage.setItem("GEMINI_API_KEY", gemini).  The key is
\* read at the start of translate only, so the action is explored while a
\* run is still to start
SaveApiKey ==
    \E gemini \in ApiKeyInputs :
       /\ \E r \in RunIds : runs[r].pc = "idle"
       /\ gemini # apiKey
       /\ apiKey' = gemini
       /\ Event
       /\ UNCHANGED <<config, user, db, loads, runs, calls>>
       /\ UNCHANGED appVars
       /\ UNCHANGED gl

\* getSession / onAuthStateChange of the configured client: setUser
AuthStateChange ==
    /\ isConfigured
    /\ \E u \in {Null, "u1"} :
          /\ u # user
          /\ user' = u
    /\ Event
    /\ UNCHANGED <<apiKey, config, db, loads, runs, calls>>
    /\ UNCHANGED appVars
    /\ UNCHANGED gl

\* the source textarea
SetSourceZH ==
    \E text \in SourceTexts :
       /\ text # sourceZH
       /\ sourceZH' = text
       /\ Event
       /\ UNCHANGED <<apiKey, config, user, novels, activeNovel, chapters, activeChapter,
                      translationEN, notes, tone, status, extractedContext, db, loads,
                      runs, calls>>
       /\ UNCHANGED gl

\* setActiveChapter(chapter) and the effect it triggers
Activate(chapter) ==
    /\ chapter # activeChapter
    /\ activeChapter' = chapter
    /\ sourceZH' = SourceAfterEffect(isConfigured, chapter, sourceZH)
    /\ loads' = loads \cup TranslationEffect(isConfigured, chapter)
    /\ Event
    /\ UNCHANGED <<apiKey, config, user, novels, activeNovel, chapters, translationEN,
                   notes, tone, status, extractedContext, db, runs, calls>>
    /\ UNCHANGED gl

\* a click on a chapter of the sidebar
SelectChapter == \E i \in DOMAIN chapters : Activate(chapters[i])

\* chapters.findIndex(c => c.id === activeChapter?.id): 0-based, -1 when absent
FindIndex(rows, id) ==
    IF \E i \in DOMAIN rows : rows[i].id = id
    THEN (CHOOSE i \in DOMAIN rows :
             rows[i].id = id /\ \A j \in DOMAIN rows : rows[j].id = id => i <= j) - 1
    ELSE -1

goToNextChapter ==
    /\ chapters # <<>>
    /\ LET nextIndex == FindIndex(chapters, activeChapter.id) + 1
       IN /\ nextIndex < Len(chapters)
          /\ Activate(chapters[nextIndex + 1])

goToPreviousChapter ==
    /\ chapters # <<>>
    /\ LET prevIndex == FindIndex(chapters, activeChapter.id) - 1
       IN /\ prevIndex >= 0
          /\ Activate(chapters[prevIndex + 1])

\* ---------------------------------------------------------------- loads
\* the select of the translation effect settles: show the stored translation
\* and notes, or nothing
LoadTranslationResult ==
    \E l \in loads, ok \in BOOLEAN :
       /\ LET data == MaybeSingle(db.translations, l, ok)
          IN /\ translationEN' = IF data.id # 0 /\ ~Falsy(data.english) THEN data.english ELSE ""
             /\ notes' = IF data.id # 0 THEN data.notes ELSE <<>>
       /\ loads' = loads \ {l}
       /\ UNCHANGED <<events, apiKey, config, user, novels, activeNovel, chapters, activeChapter,
                      sourceZH, tone, status, extractedContext, db, runs, calls>>
       /\ UNCHANGED gl

\* ---------------------------------------------------------------- specification
AppInit ==
    /\ apiKey \in {Null, "k1"}
    /\ config \in {[url |-> "", anonKey |-> ""],
                   [url |-> "https://p.supabase.co", anonKey |-> "anon"]}
    /\ user = Null
    /\ novels = <<>>
    /\ activeNovel = NoNovel
    /\ chapters = <<>>
    /\ activeChapter = NoChapter
    /\ sourceZH = ""
    /\ translationEN = ""
    /\ notes = <<>>
    /\ tone = "match original"
    /\ status = ""
    /\ extractedContext = NoContext
    /\ db = [novels |-> <<>>, chapters |-> <<>>, translations |-> <<>>]
    /\ loads = {}
    /\ runs = [r \in RunIds |-> IdleRun]
    /\ calls = {}
    /\ events = 0

\* the app: the glossary engine is not used
Init ==
    /\ AppInit
    /\ gl = GlossaryIdle

Next ==
    \/ \E r \in RunIds :
          \/ DoTranslate(r)
          \/ AnalysisResponse(r)
          \/ AnalysisResult(r)
          \/ TranslationResponse(r)
          \/ TranslationResult(r)
          \/ TitleUpdateResult(r)
          \/ SaveSelectResult(r)
          \/ SaveWriteResult(r)
    \/ CreateNovel \/ CreateNovelResult
    \/ AddChapter \/ AddChapterResult
    \/ SaveSource \/ SaveSourceResult
    \/ SaveTranslation \/ SaveTranslationSelectResult \/ SaveTranslationResult
    \/ UpdateNovelTitle \/ UpdateNovelTitleResult
    \/ UpdateChapterTitle \/ UpdateChapterTitleResult
    \/ SaveSupabase \/ SaveApiKey \/ AuthStateChange
    \/ SetSourceZH
    \/ SelectChapter \/ goToNextChapter \/ goToPreviousChapter
    \/ LoadTranslationResult

Spec == Init /\ [][Next]_vars

\* ---------------------------------------------------------------- the glossary engine in use
\* one translation of a text T of a novel whose glossary is G
GlossaryInit ==
    /\ AppInit
    /\ apiKey = Null
    /\ ~Supabase(config)
    /\ \E text \in GlossaryTexts, glossary \in Glossaries :
          gl = [GlossaryIdle EXCEPT !.pc = "input", !.text = text, !.glossary = glossary]

\* the engine's steps leave the app as it is
AppUnchanged ==
    /\ UNCHANGED <<apiKey, config, user, db, loads, runs, calls, events>>
    /\ UNCHANGED appVars

\* doTranslate hands the text to the provider: translate({ text: sourceZH, ... })
Submit ==
    /\ gl.pc = "input"
    /\ gl' = [gl EXCEPT !.pc = "submitted", !.request = gl.text]
    /\ AppUnchanged

\* the engine maps the text
MapTermsStep ==
    /\ gl.pc = "submitted"
    /\ LET out == MapTerms(gl.text, gl.glossary)
       IN gl' = [gl EXCEPT !.pc = "mapped", !.mappedText = out.mappedText,
                           !.markers = out.markers]
    /\ AppUnchanged

\* the provider answers the mapped text
ProviderAnswer ==
    /\ gl.pc = "mapped"
    /\ \E output \in ProviderOutputs(gl.mappedText) :
          gl' = [gl EXCEPT !.pc = "translated", !.output = output]
    /\ AppUnchanged

\* the engine restores the terms
RestoreTermsStep ==
    /\ gl.pc = "translated"
    /\ gl' = [gl EXCEPT !.pc = "restored", !.restored = RestoreTerms(gl.output, gl.markers)]
    /\ AppUnchanged

\* the engine restores the restored text once more
RestoreTermsAgain ==
    /\ gl.pc = "restored"
    /\ gl' = [gl EXCEPT !.pc = "done", !.again = RestoreTerms(gl.restored, gl.markers)]
    /\ AppUnchanged

GlossaryNext ==
    \/ Submit
    \/ MapTermsStep
    \/ ProviderAnswer
    \/ RestoreTermsStep
    \/ RestoreTermsAgain

GlossarySpec == GlossaryInit /\ [][GlossaryNext]_vars

\* ---------------------------------------------------------------- properties
\* the runs of doTranslate that have called translate
Started == {r \in RunIds : runs[r].pc # "idle"}
\* the runs whose translate call returned a result
Returned == {r \in RunIds : runs[r].out # NoResult}
\* the requests of a run that belong to one step
RequestsOf(r, step) == {i \in 1..Len(runs[r].sent) : runs[r].sent[i].step = step}
\* the pipeline's positions between the call of translate and its outcome
InPipeline ==
    {"analysis_fetch", "analysis_json", "translation_fetch", "translation_json"}

\* C1: a translate call made while no API key is stored throws the
\* missing-key error and has sent no HTTP request
NoKeyNoRequest ==
    \A r \in Started :
        Falsy(runs[r].key) =>
            /\ runs[r].sent = <<>>
            /\ runs[r].inflight = 0
            /\ runs[r].pc = "failed"
            /\ runs[r].thrown = <<KeyMissingMessage>>

NoKeyWitness ==
    \E r \in RunIds :
        /\ runs[r].pc = "failed"
        /\ Falsy(runs[r].key)
        /\ runs[r].sent = <<>>
        /\ status = KeyMissingMessage

\* C2: when the Analyze response is ok and its text does not parse, the
\* Translate request is sent with a context whose characters, jargon and
\* insideJokes are empty, and no error of the run comes from the parse: the
\* run fails only if the Translate step fails
ParseFailureRecovered ==
    \A r \in Started :
        runs[r].aText = "invalid" =>
            /\ Len(runs[r].sent) = 2
            /\ runs[r].sent[2].step = "translate"
            /\ runs[r].sent[2].context.type = "object"
            /\ runs[r].sent[2].context.characters = <<>>
            /\ runs[r].sent[2].context.jargon = <<>>
            /\ runs[r].sent[2].context.insideJokes = <<>>
            /\ runs[r].pc = "failed" =>
                  \/ runs[r].tStatus \in {"rejected", "http_error"}
                  \/ runs[r].tText = "not_json"
            /\ runs[r].tStatus = "none" => runs[r].thrown = <<>>

ParseFailureWitness ==
    \E r \in RunIds :
        /\ runs[r].aText = "invalid"
        /\ runs[r].pc = "done"
        /\ runs[r].thrown = <<>>

\* C3 (as claimed): whenever the Analyze response is ok and its body has been
\* read (text missing, an object lacking the three arrays, a non-object, or
\* text that does not parse), the Translate request has been sent
TranslateAlwaysAttempted ==
    \A r \in Started :
        runs[r].aStatus = "ok" /\ runs[r].aText \in {"json", "invalid"} =>
            /\ Len(runs[r].sent) = 2
            /\ runs[r].sent[2].step = "translate"

\* C4: the requests of a run are sequential: at most one is in flight, the
\* first one sent is Analyze, and Translate is sent only once the Analyze
\* response was ok and turned into the context that Translate carries
StrictlySequential ==
    \A r \in RunIds :
        /\ runs[r].inflight <= 1
        /\ Len(runs[r].sent) <= 2
        /\ Len(runs[r].sent) >= 1 => runs[r].sent[1].step = "analyze"
        /\ runs[r].pc = "analysis_fetch" => Len(runs[r].sent) = 1
        /\ Len(runs[r].sent) = 2 =>
              /\ runs[r].sent[2].step = "translate"
              /\ runs[r].aStatus = "ok"
              /\ runs[r].aText \in {"json", "invalid"}
              /\ runs[r].context # NoContext
              /\ runs[r].sent[2].context = runs[r].context

SequentialWitness ==
    \E r \in RunIds :
        /\ runs[r].pc = "translation_fetch"
        /\ runs[r].inflight = 1
        /\ Len(runs[r].sent) = 2

\* C5: a non-ok status on Analyze or on Translate ends the run: no request
\* follows it, a run sends at most one Analyze and one Translate request, and
\* the run throws exactly one error
FailureAborts ==
    \A r \in RunIds :
        /\ runs[r].aStatus = "http_error" =>
              /\ Len(runs[r].sent) = 1
              /\ runs[r].pc = "failed"
              /\ runs[r].thrown = <<Rethrown(AnalysisFailedMessage)>>
        /\ runs[r].tStatus = "http_error" =>
              /\ Len(runs[r].sent) = 2
              /\ runs[r].pc = "failed"
              /\ runs[r].thrown = <<Rethrown(TranslationFailedMessage)>>
        /\ Cardinality(RequestsOf(r, "analyze")) <= 1
        /\ Cardinality(RequestsOf(r, "translate")) <= 1
        /\ runs[r].inflight > 0 => runs[r].pc # "failed"
        /\ Len(runs[r].thrown) = IF runs[r].pc = "failed" THEN 1 ELSE 0

FailureWitness ==
    \E r \in RunIds :
        /\ runs[r].tStatus = "http_error"
        /\ runs[r].pc = "failed"
        /\ Len(runs[r].sent) = 2

\* C6: a doTranslate whose translate call fails commits nothing: each of its
\* steps up to and including the failure leaves translationEN, notes,
\* extractedContext, the active chapter and the database as they were and
\* issues no write; only status changes, and at the failure it is the error's
\* message
FailedRunStep(r) ==
    /\ runs'[r] # runs[r]
    /\ runs'[r].pc \in InPipeline \cup {"failed"}
FailureCommitsNothing ==
    [][\A r \in RunIds :
          FailedRunStep(r) =>
              /\ UNCHANGED <<translationEN, notes, extractedContext, activeChapter,
                             chapters, novels, activeNovel, sourceZH, tone, db, loads,
                             calls, apiKey, config, user>>
              /\ ~runs'[r].committed
              /\ runs'[r].written = 0
              /\ runs'[r].pc = "failed" =>
                    /\ Len(runs'[r].thrown) = 1
                    /\ status' = runs'[r].thrown[1]]_vars

FailureCommitsNothingWitness ==
    \E r \in RunIds :
        /\ runs[r].pc = "failed"
        /\ runs[r].tStatus = "http_error"
        /\ status = Rethrown(TranslationFailedMessage)
        /\ activeChapter # NoChapter
        /\ canWrite
        /\ translationEN = ""
        /\ db.translations = <<>>

FallbackContextShape ==
    \A r \in Started :
        runs[r].aText = "invalid" =>
            /\ runs[r].context.characters = <<>>
            /\ runs[r].context.jargon = <<>>
            /\ runs[r].context.insideJokes = <<>>
            /\ "chapterTitle" \notin runs[r].context.has
            /\ runs[r].context.chapterTitle = Null
            /\ runs[r].context.novelTitle =
                  IF runs[r].chapterTitle \in {Null, ""} THEN "Unknown Novel"
                  ELSE runs[r].chapterTitle

FallbackContextWitness ==
    \E r \in RunIds :
        /\ runs[r].aText = "invalid"
        /\ runs[r].chapterTitle = "T1"
        /\ runs[r].context.novelTitle = "T1"

WritesGuarded ==
    /\ \A r \in RunIds : runs[r].pc \in {"title_update", "save_write"} => runs[r].callOk
    /\ \A call \in calls : call.pc = "write" => call.callOk


\* C11: canWrite is true only if the client is configured and a user is
\* signed in; whenever the client is not configured canWrite is false, which
\* is what the 'config-guard' self-test reports as a pass
CanWriteOnlyIfConfiguredAndSignedIn ==
    /\ canWrite => Supabase(config) /\ user # Null
    /\ ~Supabase(config) => ~canWrite
    /\ ConfigGuardPass

CanWriteWitness ==
    /\ user # Null
    /\ ~Supabase(config)
    /\ ~canWrite
    /\ db.novels # <<>>


\* the runs of doTranslate between their start and their final status
InProgress ==
    {r \in RunIds : runs[r].pc \in InPipeline \cup {"title_update", "save_select", "save_write"}}

\* C12 (as claimed): at most one doTranslate is in progress at any time for
\* a given chapter
OneTranslationPerChapter ==
    \A r1, r2 \in InProgress :
        /\ runs[r1].cl.activeChapter # NoChapter
        /\ runs[r1].cl.activeChapter.id = runs[r2].cl.activeChapter.id
        => r1 = r2


\* the glossary engine has mapped the text
Mapped == gl.pc \in {"mapped", "translated", "restored", "done"}
\* the keys of the glossary that occur in the text
KeysIn(text, glossary) ==
    {i \in DOMAIN glossary :
        glossary[i].sourceTerm # <<>> /\ Contains(text, glossary[i].sourceTerm)}

\* C13 (as claimed): the text handed to the provider is the text mapped by
\* mapTerms, and mapTerms returns as mapped text a text that holds no key of
\* a non-empty glossary as it is
SentTextIsMapped ==
    /\ gl.pc \notin {"idle", "input"} =>
          gl.request = MapTerms(gl.text, gl.glossary).mappedText
    /\ Mapped /\ gl.glossary # <<>> /\ KeysIn(gl.text, gl.glossary) = {} =>
          gl.mappedText = gl.text

RunStep(r) ==
    \/ AnalysisResponse(r)
    \/ AnalysisResult(r)
    \/ TranslationResponse(r)
    \/ TranslationResult(r)
    \/ TitleUpdateResult(r)
    \/ SaveSelectResult(r)
    \/ SaveWriteResult(r)
\* how far a run has come
Rank(pc) ==
    CASE pc = "idle" -> 0
      [] pc = "analysis_fetch" -> 1
      [] pc = "analysis_json" -> 2
      [] pc = "translation_fetch" -> 3
      [] pc = "translation_json" -> 4
      [] pc = "title_update" -> 5
      [] pc = "save_select" -> 6
      [] pc = "save_write" -> 7
      [] OTHER -> 8
\* a run in progress can take its next step as soon as its call returns, and
\* a run is "done" only if both provider requests succeeded
NeverStuck ==
    \A r \in RunIds :
        /\ r \in InProgress => ENABLED RunStep(r)
        /\ runs[r].pc = "done" =>
              /\ runs[r].aStatus = "ok"
              /\ runs[r].tStatus = "ok"
              /\ runs[r].out # NoResult
              /\ runs[r].thrown = <<>>
\* every step of a run takes it strictly forward; the step that ends it sets
\* the status, to "Done" when the run is done and to the error's message
\* when it failed, and no other step of a run sets "Done"
ForwardToFinalStatus ==
    \A r \in RunIds :
        runs'[r] # runs[r] =>
            /\ Rank(runs'[r].pc) > Rank(runs[r].pc)
            /\ runs'[r].pc = "done" => status' = "Done"
            /\ runs'[r].pc = "failed" =>
                  /\ status' = runs'[r].thrown[1]
                  /\ status' \notin {"Done", "Analyzing and translating...", ""}
            /\ runs'[r].pc \notin {"done", "failed"} => status' # "Done" \/ status = "Done"

\* C16: every doTranslate whose network and database calls return comes to
\* an end: a run in progress is never stuck and each of its steps takes it
\* forward through finitely many positions; the step that ends it sets the
\* status to "Done" or to an error message, and "Done" is set only by runs
\* whose provider call succeeded
TranslationTerminates == []NeverStuck /\ [][ForwardToFinalStatus]_vars

TerminatesWitness ==
    \E r \in RunIds :
        /\ runs[r].pc = "done"
        /\ runs[r].written = 2
        /\ status = "Done"
        /\ db.translations # <<>>


\* the chapter whose title a run of doTranslate may update: the chapter that
\* was active when the run started
ChapterOf(r) == runs[r].cl.activeChapter
\* a chapter was active, and the Analyze step detected a non-empty title that
\* differs from the title the chapter had
DetectedNewTitle(r) ==
    /\ ChapterOf(r) # NoChapter
    /\ runs[r].context.chapterTitle \notin {Null, ""}
    /\ runs[r].context.chapterTitle # ChapterOf(r).title
\* translate returns to run r
TranslateReturns(r) ==
    /\ runs[r].pc = "translation_json"
    /\ runs'[r].pc \notin {"translation_json", "failed"}
\* a step of run r that changes a chapter title, in the table or on display
TitleWritten(r) ==
    /\ runs'[r] # runs[r]
    /\ \/ db'.chapters # db.chapters
       \/ chapters' # chapters
       \/ activeChapter' # activeChapter

\* C17 (as claimed): doTranslate issues the update of the chapter title if
\* and only if a chapter is active and the detected title is not empty and
\* differs from the chapter's title
TitleUpdatedIffDetected ==
    [][\A r \in RunIds :
          TranslateReturns(r) =>
              (runs'[r].pc = "title_update" <=> DetectedNewTitle(r))]_vars

\* C17 (amended): doTranslate issues the update of the chapter title if and
\* only if a chapter is active, the detected title is not empty and differs
\* from the chapter's title, and the client is configured and a user signed
\* in, all as of the start of the action; the update carries the detected
\* title; a run writes a title in no other step, and the step that writes it
\* sets the detected title; the update is issued before any request of
\* saveTranslation
TitleUpdatedIffDetectedAndAllowed ==
    [][\A r \in RunIds :
          /\ TranslateReturns(r) =>
                /\ runs'[r].pc = "title_update" <=>
                      /\ DetectedNewTitle(r)
                      /\ runs[r].cl.supabase
                      /\ runs[r].cl.user # Null
                /\ runs'[r].pc = "title_update" =>
                      runs'[r].newTitle = runs[r].context.chapterTitle
          /\ runs'[r].pc = "title_update" /\ runs[r].pc # "title_update" =>
                /\ runs[r].pc = "translation_json"
                /\ runs[r].written = 0
          /\ runs'[r].pc \in {"save_select", "save_write"} /\ runs'[r].pc # runs[r].pc =>
                runs[r].pc \in {"translation_json", "title_update", "save_select"}
          /\ TitleWritten(r) =>
                /\ runs[r].pc = "title_update"
                /\ activeChapter' = [ChapterOf(r) EXCEPT !.title = runs[r].context.chapterTitle]
                /\ \A i \in DOMAIN db'.chapters :
                      db'.chapters[i].id = ChapterOf(r).id =>
                          db'.chapters[i].title = runs[r].context.chapterTitle]_vars

TitleUpdateWitness ==
    \E r \in RunIds :
        /\ runs[r].pc = "save_select"
        /\ runs[r].context.chapterTitle = "T1"
        /\ runs[r].chapterTitle = ""
        /\ activeChapter.title = "T1"
        /\ status = "Updated chapter title"


\* the rows of the translations table that belong to a chapter
TranslationsOf(chapterId) ==
    {i \in DOMAIN db.translations : db.translations[i].chapter_id = chapterId}

\* C18 (as claimed): whatever saves have run, overlapping or not, the
\* translations table holds at most one row per chapter
OneTranslationRowPerChapter ==
    \A i \in DOMAIN db.chapters :
        Cardinality(TranslationsOf(db.chapters[i].id)) <= 1


\* C19 (as claimed): the response of a translation load that was sent for a
\* chapter other than the one now active never overwrites the displayed
\* translation and notes
LateLoadNeverOverwrites ==
    [][\A l \in loads :
          l \notin loads' /\ l # activeChapter.id =>
              UNCHANGED <<translationEN, notes>>]_vars


\* run r finishes with "Done" after saveTranslation has sent its write, the
\* chapter it translated is still the active one, writes are still allowed and
\* no other translation is running
FinishesSaved(r) ==
    /\ runs[r].pc = "save_write"
    /\ runs'[r].pc = "done"
    /\ canWrite
    /\ activeChapter # NoChapter
    /\ activeChapter.id = ChapterOf(r).id
    /\ \A q \in RunIds \ {r} : runs[q].pc = "idle"
\* the english stored for a chapter once the step is taken
StoredAfter(chapterId) ==
    {db'.translations[i].english :
        i \in {j \in DOMAIN db'.translations : db'.translations[j].chapter_id = chapterId}}

\* C20 (as claimed): when a doTranslate for an active chapter with writes
\* allowed finishes with "Done", the displayed translation is the text the
\* provider call returned and is the translation stored for the chapter
DoneShowsStoredTranslation ==
    [][\A r \in RunIds :
          FinishesSaved(r) =>
              /\ status' = "Done"
              /\ translationEN' = runs[r].out.english
              /\ StoredAfter(ChapterOf(r).id) = {translationEN'}]_vars

====
